---- MODULE Spec2Model ----
(***************************************************************************)
(* validecor: the call-time pipeline of the `validecor` decorator          *)
(* (core.py) and its stock validators (validators.py).                     *)
(*                                                                         *)
(* A decorated function is a pair (target_spec, source_spec) fixed at      *)
(* decoration time.  Every wrapper call binds the call's arguments with    *)
(* get_arg_map, resets the *args / **kwargs slots, runs the metadata items *)
(* of the annotated parameters one by one, rebuilds the arguments when a   *)
(* source_spec is given and finally calls the underlying function.         *)
(*                                                                         *)
(* Python dictionaries are objects: the model keeps them in a heap and     *)
(* source_map / target_map are references into it, so that aliasing        *)
(* (target_map = source_map, spec.kwonlydefaults handed out by             *)
(* map_kwdefaults) is visible.                                             *)
(***************************************************************************)
EXTENDS Integers, Sequences, FiniteSets, TLC

VARIABLES
    target_spec,    \* getfullargspec(fun), read at decoration
    source_spec,    \* the decorator's argument, NoneSpec for None
    decorated,      \* history: the specs and the heap right after decoration
    called_before,  \* history: the wrapper has been called before this call
    heap,           \* the dictionary objects, by address
    call,           \* the wrapper's actual arguments
    args, kwargs,   \* the wrapper's locals args and kwargs (rebound on rebuild)
    source_map,     \* address of the wrapper's source_map
    target_map,     \* address of the wrapper's target_map
    entry_map,      \* history: the target map's contents when the loop starts
    pc,             \* idle, items, call, returned, raised
    pos,            \* the next metadata item of the loop
    exc,            \* the exception that left the wrapper
    log,            \* history: the metadata items run by this call
    received,       \* what fun's parameters were bound to
    invoked         \* how often this call entered fun

vars == <<target_spec, source_spec, decorated, called_before, heap, call, args,
          kwargs, source_map, target_map, entry_map, pc, pos, exc, log,
          received, invoked>>

(***************************************************************************)
(* Bounds of the model.                                                    *)
(***************************************************************************)
\* largest number of positional arguments of a call
MaxArgs == 2
\* largest number of keyword arguments of a call
MaxKwargs == 2

(***************************************************************************)
(* Python values: pairs of the value's type and its contents.              *)
(***************************************************************************)
None == "None"

I(n) == <<"int", n>>
S(s) == <<"str", s>>
Tu(s) == <<"tuple", s>>
D(f) == <<"dict", f>>

TypeOf(x) == x[1]

ValOf(x) == x[2]

EmptyDict == [n \in {} |-> None]

Put(d, k, v) == [x \in (DOMAIN d) \cup {k} |-> IF x = k THEN v ELSE d[x]]

\* d1 | d2 and d1.update(d2): the right operand wins
Merge(d1, d2) ==
    [x \in (DOMAIN d1) \cup (DOMAIN d2) |-> IF x \in DOMAIN d2 THEN d2[x] ELSE d1[x]]

\* the characters of the names the model uses (iterating a str yields them)
Chars(name) ==
    CASE name = "a" -> <<"a">>
      [] name = "b" -> <<"b">>
      [] name = "k" -> <<"k">>
      [] name = "x" -> <<"x">>
      [] name = "xy" -> <<"x", "y">>
      [] name = "kw" -> <<"k", "w">>
      [] name = "rest" -> <<"r", "e", "s", "t">>
      [] OTHER -> <<name>>

(***************************************************************************)
(* Exceptions.  ValidecorError carries its ErrorType and arg_name; the     *)
(* builtin exceptions carry only their kind.                               *)
(***************************************************************************)
ErrorType == {"ArgCount", "ArgMap", "ArgMiss", "ArgVal", "BadMetadata"}

Exception(kind, type, arg_name) == [kind |-> kind, type |-> type, arg_name |-> arg_name]

ValidecorError(type, arg_name) == Exception("ValidecorError", type, arg_name)

Builtin(kind) == Exception(kind, None, None)

NoException == Exception(None, None, None)

\* the result of a function that returns a dictionary or raises
Return(m) == [ok |-> TRUE, map |-> m, exc |-> NoException]

Raise(e) == [ok |-> FALSE, map |-> EmptyDict, exc |-> e]

(***************************************************************************)
(* FullArgSpec.  defaults = <<>> stands for spec.defaults = None (both     *)
(* give an empty map_defaults); kwonlydefaults is the heap address of the  *)
(* spec's dictionary (an empty one stands for None).                       *)
(***************************************************************************)
FullArgSpec(a, d, va, kwo, kwd, vkw, ann) ==
    [args |-> a, defaults |-> d, varargs |-> va, kwonlyargs |-> kwo,
     kwonlydefaults |-> kwd, varkw |-> vkw, annotations |-> ann]

Range(s) == {s[i] : i \in 1..Len(s)}

Min(m, n) == IF m < n THEN m ELSE n

map_defaults(spec) ==
    LET n == Len(spec.defaults)
        first == Len(spec.args) - n
    IN  IF n = 0 \/ first < 0 THEN EmptyDict
        ELSE [name \in {spec.args[i] : i \in (first + 1)..Len(spec.args)} |->
                spec.defaults[(CHOOSE i \in (first + 1)..Len(spec.args) :
                                  spec.args[i] = name) - first]]

\* spec.kwonlydefaults or {}: the spec's own dictionary object, not a copy,
\* unless it is empty (or None), and then a new empty dictionary
map_kwdefaults(spec, h) ==
    IF h[spec.kwonlydefaults] = EmptyDict THEN "empty" ELSE spec.kwonlydefaults

RECURSIVE PositionalLoop(_, _, _, _, _)
PositionalLoop(spec, a, spec_defaults, i, arg_map) ==
    IF i > Len(spec.args) THEN Return(arg_map)
    ELSE LET arg_name == spec.args[i]
         IN  IF i <= Len(a)
               THEN PositionalLoop(spec, a, spec_defaults, i + 1,
                                   Put(arg_map, arg_name, a[i]))
             ELSE IF arg_name \in DOMAIN spec_defaults
               THEN PositionalLoop(spec, a, spec_defaults, i + 1,
                                   Put(arg_map, arg_name, spec_defaults[arg_name]))
             ELSE Raise(ValidecorError("ArgMiss", arg_name))

RECURSIVE KeywordLoop(_, _, _, _, _)
KeywordLoop(spec, kw, spec_kwdefaults, i, arg_map) ==
    IF i > Len(spec.kwonlyargs) THEN Return(arg_map)
    ELSE LET arg_name == spec.kwonlyargs[i]
         IN  IF arg_name \in DOMAIN kw
               THEN KeywordLoop(spec, kw, spec_kwdefaults, i + 1,
                                Put(arg_map, arg_name, kw[arg_name]))
             ELSE IF arg_name \in DOMAIN spec_kwdefaults
               THEN KeywordLoop(spec, kw, spec_kwdefaults, i + 1,
                                Put(arg_map, arg_name, spec_kwdefaults[arg_name]))
             ELSE Raise(ValidecorError("ArgMiss", arg_name))

\* { k: v for k, v in kwargs if k not in spec.kwonlyargs }: iterating a dict
\* yields its keys, and `k, v` unpacks each key, a str, into its characters.
\* A key that is not two characters long raises ValueError.  The names of the
\* model hold one two-character keyword at most, so insertion order is moot.
VarkwComprehension(spec, kw) ==
    IF \E key \in DOMAIN kw : Len(Chars(key)) # 2
      THEN Raise(Builtin("ValueError"))
    ELSE Return([k \in {Chars(key)[1] : key \in {n \in DOMAIN kw :
                                Chars(n)[1] \notin Range(spec.kwonlyargs)}} |->
                  S(Chars(CHOOSE key \in DOMAIN kw : Chars(key)[1] = k)[2])])

VarargsStep(spec, a, arg_map) ==
    IF spec.varargs # None
      THEN Return(Put(arg_map, spec.varargs,
                      Tu(SubSeq(a, Min(Len(a), Len(spec.args)) + 1, Len(a)))))
    ELSE IF Len(a) > Len(spec.args)
      THEN Raise(ValidecorError("ArgCount", None))
    ELSE Return(arg_map)

VarkwStep(spec, kw, arg_map) ==
    IF spec.varkw # None
      THEN LET d == VarkwComprehension(spec, kw)
           IN  IF d.ok THEN Return(Put(arg_map, spec.varkw, D(d.map))) ELSE d
    ELSE IF Cardinality(DOMAIN kw) > Len(spec.kwonlyargs)
      THEN Raise(ValidecorError("ArgCount", None))
    ELSE Return(arg_map)

\* the contents of the new dictionary arg_map, or the exception raised
get_arg_map(spec, a, kw, h) ==
    LET r1 == PositionalLoop(spec, a, map_defaults(spec), 1, EmptyDict)
        r2 == IF r1.ok THEN VarargsStep(spec, a, r1.map) ELSE r1
        r3 == IF r2.ok
                THEN KeywordLoop(spec, kw, h[map_kwdefaults(spec, h)], 1, r2.map)
              ELSE r2
    IN  IF r3.ok THEN VarkwStep(spec, kw, r3.map) ELSE r3

\* mutant of get_arg_def: the keyword-only defaults' own dictionary, updated
\* in place and handed out
get_arg_def_InPlace(spec, h) ==
    [ref |-> map_kwdefaults(spec, h),
     heap |-> [h EXCEPT ![map_kwdefaults(spec, h)] = Merge(@, map_defaults(spec))]]

\* map_defaults(spec) | map_kwdefaults(spec): a new dictionary object; the
\* result is its address and the heap that holds it
get_arg_def(spec, h) ==
    [ref |-> "arg_def",
     heap |-> [h EXCEPT !["arg_def"] =
                  Merge(map_defaults(spec), h[map_kwdefaults(spec, h)])]]

(***************************************************************************)
(* Annotation metadata.  An item is an instance of one of the Validator    *)
(* classes, or any other object (cls = "str": a plain string).             *)
(*   nodes          Map: str keys, or callables (cls = "callable")         *)
(*   lo, hi         Between                                                *)
(*   validator      Custom: the values its callable accepts without raising*)
(*   type_override  IsType, IsTypable                                      *)
(***************************************************************************)
Metadata(cls, nodes, lo, hi, validator, type_override) ==
    [cls |-> cls, nodes |-> nodes, lo |-> lo, hi |-> hi,
     validator |-> validator, type_override |-> type_override]

Key(k) == [cls |-> "str", key |-> k]

Callable(f) == [cls |-> "callable", key |-> f]

Map(nodes) == Metadata("Map", nodes, 0, 0, {}, None)

Between(lo, hi) == Metadata("Between", <<>>, lo, hi, {}, None)

Custom(accepts) == Metadata("Custom", <<>>, 0, 0, accepts, None)

IsType(type_override) == Metadata("IsType", <<>>, 0, 0, {}, type_override)

IsTypable(type_override) == Metadata("IsTypable", <<>>, 0, 0, {}, type_override)

NotAValidator == Metadata("str", <<>>, 0, 0, {}, None)

\* isinstance(metadata, Validator)
IsValidator(metadata) ==
    metadata.cls \in {"Map", "Between", "Custom", "IsType", "IsTypable"}

\* a value or the exception that evaluating it raised
Value(v) == [ok |-> TRUE, val |-> v]

Failure == [ok |-> FALSE, val |-> I(0)]

\* the callables the model uses as Map nodes: len
CallNode(f, res) ==
    IF f = "len" /\ TypeOf(res) = "dict" THEN Value(I(Cardinality(DOMAIN ValOf(res))))
    ELSE IF f = "len" /\ TypeOf(res) = "tuple" THEN Value(I(Len(ValOf(res))))
    ELSE IF f = "len" /\ TypeOf(res) = "str" THEN Value(I(Len(Chars(ValOf(res)))))
    ELSE Failure

\* res = node(res) if callable(node) else res[node]
RECURSIVE Walk(_, _, _)
Walk(nodes, i, res) ==
    IF i > Len(nodes) THEN Value(res)
    ELSE LET node == nodes[i]
             next == IF node.cls = "callable" THEN CallNode(node.key, res)
                     ELSE IF TypeOf(res) = "dict" /\ node.key \in DOMAIN ValOf(res)
                       THEN Value(ValOf(res)[node.key])
                     ELSE Failure
         IN  IF next.ok THEN Walk(nodes, i + 1, next.val) ELSE next

\* mutant of MapCall: a failed walk raises whether or not the target map
\* holds the parameter
MapCall_AlwaysRaises(self, arg_name, arg_type, src, tgt) ==
    LET res == Walk(self.nodes, 1, D(src))
    IN  IF res.ok THEN Return(Put(tgt, arg_name, res.val))
        ELSE Raise(ValidecorError("ArgMap", arg_name))

MapCall(self, arg_name, arg_type, src, tgt) ==
    LET res == Walk(self.nodes, 1, D(src))
    IN  IF res.ok THEN Return(Put(tgt, arg_name, res.val))
        ELSE IF arg_name \notin DOMAIN tgt
          THEN Raise(ValidecorError("ArgMap", arg_name))
        ELSE Return(tgt)

BetweenCall(self, arg_name, arg_type, src, tgt) ==
    IF /\ arg_name \in DOMAIN tgt
       /\ TypeOf(tgt[arg_name]) = "int"
       /\ ~(ValOf(tgt[arg_name]) < self.lo \/ self.hi < ValOf(tgt[arg_name]))
      THEN Return(tgt)
    ELSE Raise(ValidecorError("ArgVal", arg_name))

CustomCall(self, arg_name, arg_type, src, tgt) ==
    IF arg_name \in DOMAIN tgt /\ tgt[arg_name] \in self.validator
      THEN Return(tgt)
    ELSE Raise(ValidecorError("ArgVal", arg_name))

IsTypeCall(self, arg_name, arg_type, src, tgt) ==
    IF arg_name \notin DOMAIN tgt THEN Raise(Builtin("KeyError"))
    ELSE LET actual_type == TypeOf(tgt[arg_name])
             wanted == IF self.type_override # None THEN self.type_override
                       ELSE arg_type
         IN  IF actual_type # wanted THEN Raise(ValidecorError("ArgVal", arg_name))
             ELSE Return(tgt)

Digits == <<"0", "1", "2", "3", "4", "5", "6", "7", "8", "9">>

\* int(s) of a one-digit string; any other string raises ValueError
ParseInt(s) ==
    IF \E i \in 1..Len(Digits) : Digits[i] = s
      THEN Value(I((CHOOSE i \in 1..Len(Digits) : Digits[i] = s) - 1))
    ELSE Failure

\* str(n) of a one-digit int
FormatInt(n) == IF n + 1 \in 1..Len(Digits) THEN S(Digits[n + 1]) ELSE S("int")

\* arg_type(arg) for the types int and str; the other types convert only
\* their own instances
Convert(arg_type, arg) ==
    IF TypeOf(arg) = arg_type THEN Value(arg)
    ELSE IF arg_type = "int" /\ TypeOf(arg) = "str" THEN ParseInt(ValOf(arg))
    ELSE IF arg_type = "str" /\ TypeOf(arg) = "int" THEN Value(FormatInt(ValOf(arg)))
    ELSE IF arg_type = "str" THEN Value(S("repr"))
    ELSE Failure

IsTypableCall(self, arg_name, arg_type, src, tgt) ==
    LET wanted == IF self.type_override # None THEN self.type_override
                  ELSE arg_type
        res == IF arg_name \in DOMAIN tgt THEN Convert(wanted, tgt[arg_name])
               ELSE Failure
    IN  IF res.ok THEN Return(Put(tgt, arg_name, res.val))
        ELSE Raise(ValidecorError("ArgVal", arg_name))

\* metadata(arg_name, arg_type, source_map, target_map): the target map's
\* contents afterwards, or the exception raised
ValidatorCall(metadata, arg_name, arg_type, src, tgt) ==
    CASE metadata.cls = "Map" -> MapCall(metadata, arg_name, arg_type, src, tgt)
      [] metadata.cls = "Between" -> BetweenCall(metadata, arg_name, arg_type, src, tgt)
      [] metadata.cls = "Custom" -> CustomCall(metadata, arg_name, arg_type, src, tgt)
      [] metadata.cls = "IsType" -> IsTypeCall(metadata, arg_name, arg_type, src, tgt)
      [] metadata.cls = "IsTypable" -> IsTypableCall(metadata, arg_name, arg_type, src, tgt)

(***************************************************************************)
(* Python's own binding of the call of fun to fun's parameters.  The       *)
(* function's defaults are its own (fun.__kwdefaults__), not the spec's.   *)
(***************************************************************************)
IndexOf(seq, x) == CHOOSE i \in 1..Len(seq) : seq[i] = x

PyBind(spec, a, kw, kwdefaults) ==
    LET names == Range(spec.args)
        npos == Min(Len(a), Len(spec.args))
        defaults == map_defaults(spec)
        surplus == SubSeq(a, npos + 1, Len(a))
        extra == {n \in DOMAIN kw : n \notin names \cup Range(spec.kwonlyargs)}
        twice == {n \in DOMAIN kw : n \in names /\ IndexOf(spec.args, n) <= npos}
        missing == {n \in names : /\ IndexOf(spec.args, n) > npos
                                  /\ n \notin DOMAIN kw
                                  /\ n \notin DOMAIN defaults}
                   \cup {n \in Range(spec.kwonlyargs) : /\ n \notin DOMAIN kw
                                                        /\ n \notin DOMAIN kwdefaults}
        named == [n \in names \cup Range(spec.kwonlyargs) |->
                    IF n \in names /\ IndexOf(spec.args, n) <= npos
                      THEN a[IndexOf(spec.args, n)]
                    ELSE IF n \in DOMAIN kw THEN kw[n]
                    ELSE IF n \in names THEN defaults[n]
                    ELSE kwdefaults[n]]
        with_varargs == IF spec.varargs # None
                          THEN Put(named, spec.varargs, Tu(surplus))
                        ELSE named
    IN  IF \/ (spec.varargs = None /\ Len(surplus) > 0)
           \/ (spec.varkw = None /\ extra # {})
           \/ twice # {}
           \/ missing # {}
          THEN Raise(Builtin("TypeError"))
        ELSE IF spec.varkw # None
          THEN Return(Put(with_varargs, spec.varkw, D([n \in extra |-> kw[n]])))
        ELSE Return(with_varargs)

(***************************************************************************)
(* The wrapper.  A frame holds one call's locals and the heap; the steps   *)
(* below are the wrapper's code between two observable points.             *)
(***************************************************************************)
\* validecor() without a source_spec: source_spec is None
NoneSpec == FullArgSpec(<<>>, <<>>, None, <<>>, None, None, <<>>)

Frame(h, a, kw) ==
    [heap |-> h, call |-> [args |-> a, kwargs |-> kw], args |-> a,
     kwargs |-> kw, source_map |-> None,
     target_map |-> None, entry_map |-> EmptyDict, pc |-> "idle", pos |-> 1,
     exc |-> NoException, log |-> <<>>, received |-> EmptyDict, invoked |-> 0]

\* the dictionaries a call creates are new objects
NewObjects(h) ==
    [h EXCEPT !["arg_map"] = EmptyDict, !["arg_def"] = EmptyDict,
              !["empty"] = EmptyDict]

\* binding and the reset of the *args / **kwargs slots
Enter(tspec, sspec, h, a, kw) ==
    LET h0 == NewObjects(h)
        f == Frame(h0, a, kw)
        r == get_arg_map(IF sspec = NoneSpec THEN tspec ELSE sspec, a, kw, h0)
    IN  IF ~r.ok THEN [f EXCEPT !.pc = "raised", !.exc = r.exc]
        ELSE LET h1 == [h0 EXCEPT !["arg_map"] = r.map]
                 t == IF sspec = NoneSpec THEN [ref |-> "arg_map", heap |-> h1]
                      ELSE get_arg_def(tspec, h1)
                 m0 == t.heap[t.ref]
                 m1 == IF tspec.varargs # None THEN Put(m0, tspec.varargs, Tu(<<>>))
                       ELSE m0
                 m2 == IF tspec.varkw # None THEN Put(m1, tspec.varkw, D(EmptyDict))
                       ELSE m1
             IN  [f EXCEPT !.heap = [t.heap EXCEPT ![t.ref] = m2],
                           !.source_map = "arg_map", !.target_map = t.ref,
                           !.entry_map = m2, !.pc = "items"]

\* mutant of AnnotationItems: the metadata visited last item first
AnnotationItems_Reversed(annotation) ==
    [j \in 1..Len(annotation.metadata) |->
        [arg_name |-> annotation.arg_name, arg_type |-> annotation.arg_type,
         idx |-> Len(annotation.metadata) + 1 - j,
         metadata |-> annotation.metadata[Len(annotation.metadata) + 1 - j]]]

\* the metadata of one annotation, in the order of annotation.__metadata__
AnnotationItems(annotation) ==
    [j \in 1..Len(annotation.metadata) |->
        [arg_name |-> annotation.arg_name, arg_type |-> annotation.arg_type,
         idx |-> j, metadata |-> annotation.metadata[j]]]

\* the items the two nested loops visit: the annotations in order, those whose
\* origin is not Annotated skipped
RECURSIVE Flatten(_, _)
Flatten(annotations, i) ==
    IF i > Len(annotations) THEN <<>>
    ELSE (IF annotations[i].origin = "Annotated" THEN AnnotationItems(annotations[i])
          ELSE <<>>) \o Flatten(annotations, i + 1)

MetadataItems(spec) == Flatten(spec.annotations, 1)

\* mutant of Propagate: the exception of an item is swallowed and the loop
\* goes on
Propagate_Swallowed(st, r, entry) ==
    [st EXCEPT !.heap[st.target_map] = IF r.ok THEN r.map ELSE @,
               !.pos = @ + 1, !.log = Append(@, entry)]

\* an exception leaves the wrapper; a normal return goes on to the next item
Propagate(st, r, entry) ==
    IF r.ok
      THEN [st EXCEPT !.heap[st.target_map] = r.map, !.pos = @ + 1,
                      !.log = Append(@, entry)]
    ELSE [st EXCEPT !.pc = "raised", !.exc = r.exc, !.log = Append(@, entry)]

\* one metadata item of the loop
ItemStep(tspec, st) ==
    LET item == MetadataItems(tspec)[st.pos]
        src == st.heap[st.source_map]
        tgt == st.heap[st.target_map]
        r == IF IsValidator(item.metadata)
               THEN ValidatorCall(item.metadata, item.arg_name, item.arg_type, src, tgt)
             ELSE Raise(ValidecorError("BadMetadata", item.arg_name))
        entry == [arg_name |-> item.arg_name, idx |-> item.idx,
                  metadata |-> item.metadata, source |-> src, before |-> tgt,
                  after |-> IF r.ok THEN r.map ELSE tgt, exc |-> r.exc]
    IN  Propagate(st, r, entry)

\* list(x) for the values of the model (a dictionary yields its keys)
Iterate(x) ==
    CASE TypeOf(x) = "tuple" -> [ok |-> TRUE, seq |-> ValOf(x)]
      [] TypeOf(x) = "str" -> [ok |-> TRUE, seq |-> [i \in 1..Len(Chars(ValOf(x))) |-> S(Chars(ValOf(x))[i])]]
      [] TypeOf(x) = "dict" -> [ok |-> TRUE,
                          seq |-> CHOOSE q \in [1..Cardinality(DOMAIN ValOf(x)) -> {S(n) : n \in DOMAIN ValOf(x)}] :
                                     \A n \in DOMAIN ValOf(x) : \E i \in DOMAIN q : q[i] = S(n)]
      [] OTHER -> [ok |-> FALSE, seq |-> <<>>]

\* the arguments rebuilt from the target map when a source_spec is given
Rebuild(tspec, sspec, st) ==
    IF sspec = NoneSpec THEN [st EXCEPT !.pc = "call"]
    ELSE LET tgt == st.heap[st.target_map]
             more == IF tspec.varargs # None THEN Iterate(tgt[tspec.varargs])
                     ELSE [ok |-> TRUE, seq |-> <<>>]
             kw == [n \in Range(tspec.kwonlyargs) |-> tgt[n]]
             extra == IF tspec.varkw # None THEN tgt[tspec.varkw] ELSE D(EmptyDict)
         IN  IF \E n \in Range(tspec.args) : n \notin DOMAIN tgt
               THEN [st EXCEPT !.pc = "raised", !.exc = Builtin("KeyError")]
             ELSE IF ~more.ok
               THEN [st EXCEPT !.pc = "raised", !.exc = Builtin("TypeError")]
             ELSE IF \E n \in Range(tspec.kwonlyargs) : n \notin DOMAIN tgt
               THEN [st EXCEPT !.pc = "raised", !.exc = Builtin("KeyError")]
             ELSE IF TypeOf(extra) = "str" /\ ValOf(extra) # ""
               THEN [st EXCEPT !.pc = "raised", !.exc = Builtin("ValueError")]
             ELSE IF TypeOf(extra) = "int" \/ (TypeOf(extra) = "tuple" /\ ValOf(extra) # <<>>)
               THEN [st EXCEPT !.pc = "raised", !.exc = Builtin("TypeError")]
             ELSE [st EXCEPT !.pc = "call",
                             !.args = [i \in 1..Len(tspec.args) |-> tgt[tspec.args[i]]]
                                        \o more.seq,
                             !.kwargs = IF TypeOf(extra) = "dict" THEN Merge(kw, ValOf(extra))
                                        ELSE kw]

\* return fun( *args, **kwargs )
Invoke(tspec, st) ==
    LET r == PyBind(tspec, st.args, st.kwargs, st.heap["fun.__kwdefaults__"])
    IN  IF r.ok THEN [st EXCEPT !.pc = "returned", !.received = r.map,
                                !.invoked = @ + 1]
        ELSE [st EXCEPT !.pc = "raised", !.exc = r.exc]

\* the wrapper from the state st to the next observable point
Step(tspec, sspec, st) ==
    IF st.pc = "items"
      THEN IF st.pos <= Len(MetadataItems(tspec)) THEN ItemStep(tspec, st)
           ELSE Rebuild(tspec, sspec, st)
    ELSE Invoke(tspec, st)

Finished(st) == st.pc \in {"returned", "raised"}

\* a whole call of the wrapper
RECURSIVE Run(_, _, _)
Run(tspec, sspec, st) ==
    IF Finished(st) THEN st ELSE Run(tspec, sspec, Step(tspec, sspec, st))

\* what the caller and the underlying function see of a call
Outcome(st) == [exc |-> st.exc, received |-> st.received, invoked |-> st.invoked]

(***************************************************************************)
(* The decorated functions of the model.                                   *)
(***************************************************************************)
Annotation(arg_name, origin, arg_type, metadata) ==
    [arg_name |-> arg_name, origin |-> origin, arg_type |-> arg_type,
     metadata |-> metadata]

\* the metadata items of the parameter a
ItemUniverse ==
    {Map(<<Key("a")>>), Map(<<Key("b")>>), Map(<<Key("a"), Key("x")>>),
     Map(<<Key("a"), Callable("len")>>), Between(0, 5), IsType(None),
     IsTypable(None), IsType("str"), Custom({I(1), S("1")}), NotAValidator}

\* one or two items, in every order
MetadataChoices ==
    {<<m>> : m \in ItemUniverse} \cup {<<m, n>> : m, n \in ItemUniverse}

\* a function signature: args, defaults, varargs, kwonlyargs, the contents of
\* kwonlydefaults, varkw, the return annotation (getfullargspec lists it
\* first) and the annotations that follow the one of a
Signature(a, d, va, kwo, kwd, vkw, ret, ann) ==
    [args |-> a, defaults |-> d, varargs |-> va, kwonlyargs |-> kwo,
     kwd |-> kwd, varkw |-> vkw, returns |-> ret, annotations |-> ann]

KwDefault == "k" :> I(8)

Targets ==
    { \* def f(a)
      Signature(<<"a">>, <<>>, None, <<>>, EmptyDict, None, <<>>, <<>>),
      \* def f(a=7) -> int
      Signature(<<"a">>, <<I(7)>>, None, <<>>, EmptyDict, None,
                <<Annotation("return", "int", "int", <<>>)>>, <<>>),
      \* def f(a, b=7) -> Annotated[int, Map('b')]
      Signature(<<"a", "b">>, <<I(7)>>, None, <<>>, EmptyDict, None,
                <<Annotation("return", "Annotated", "int", <<Map(<<Key("b")>>)>>)>>,
                <<>>),
      \* def f(a, *rest: Annotated[tuple, IsType()])
      Signature(<<"a">>, <<>>, "rest", <<>>, EmptyDict, None, <<>>,
                <<Annotation("rest", "Annotated", "tuple", <<IsType(None)>>)>>),
      \* def f(a, *, k)
      Signature(<<"a">>, <<>>, None, <<"k">>, EmptyDict, None, <<>>, <<>>),
      \* def f(a, *, k=8)
      Signature(<<"a">>, <<>>, None, <<"k">>, KwDefault, None, <<>>, <<>>),
      \* def f(a, **kw: Annotated[dict, IsType()])
      Signature(<<"a">>, <<>>, None, <<>>, EmptyDict, "kw", <<>>,
                <<Annotation("kw", "Annotated", "dict", <<IsType(None)>>)>>),
      \* def f(a, b=7, *rest, k=8, **kw)
      Signature(<<"a", "b">>, <<I(7)>>, "rest", <<"k">>, KwDefault, "kw", <<>>,
                <<>>) }

Sources ==
    { \* def src(a)
      Signature(<<"a">>, <<>>, None, <<>>, EmptyDict, None, <<>>, <<>>),
      \* def src(b, a=7, *, k=8)
      Signature(<<"b", "a">>, <<I(7)>>, None, <<"k">>, KwDefault, None, <<>>, <<>>),
      \* def src(a, *rest, **kw)
      Signature(<<"a">>, <<>>, "rest", <<>>, EmptyDict, "kw", <<>>, <<>>) }

SpecOf(sig, kwonlydefaults, annotations) ==
    FullArgSpec(sig.args, sig.defaults, sig.varargs, sig.kwonlyargs,
                kwonlydefaults, sig.varkw, annotations)

\* the values a call passes
FirstValues == {I(1), I(9), S("1"), D("x" :> I(1))}

MoreValues == {I(1), S("1")}

KwNames == {"a", "k", "xy"}

KwValues == {I(2)}

CallArgs ==
    {s \in UNION {[1..n -> FirstValues \cup MoreValues] : n \in 0..MaxArgs} :
        \A i \in 2..Len(s) : s[i] \in MoreValues}

CallKwargs ==
    UNION {[names -> KwValues] : names \in {n \in SUBSET KwNames :
                                              Cardinality(n) <= MaxKwargs}}

State ==
    [heap |-> heap, call |-> call, args |-> args, kwargs |-> kwargs,
     source_map |-> source_map,
     target_map |-> target_map, entry_map |-> entry_map, pc |-> pc, pos |-> pos,
     exc |-> exc, log |-> log, received |-> received, invoked |-> invoked]

Install(st) ==
    /\ heap' = st.heap
    /\ call' = st.call
    /\ args' = st.args
    /\ kwargs' = st.kwargs
    /\ source_map' = st.source_map
    /\ target_map' = st.target_map
    /\ entry_map' = st.entry_map
    /\ pc' = st.pc
    /\ pos' = st.pos
    /\ exc' = st.exc
    /\ log' = st.log
    /\ received' = st.received
    /\ invoked' = st.invoked
    /\ UNCHANGED <<target_spec, source_spec, decorated>>

\* the heap right after decoration
FreshHeap(tsig, ssig) ==
    [o \in {"target.kwonlydefaults", "source.kwonlydefaults", "fun.__kwdefaults__",
            "arg_map", "arg_def", "empty"} |->
        CASE o = "target.kwonlydefaults" -> tsig.kwd
          [] o = "fun.__kwdefaults__" -> tsig.kwd
          [] o = "source.kwonlydefaults" -> ssig.kwd
          [] OTHER -> EmptyDict]

NoSource == Signature(<<>>, <<>>, None, <<>>, EmptyDict, None, <<>>, <<>>)

\* @validecor(source_spec) def fun(a: Annotated[int, *metadata], ...)
Decorate(tsig, ssig, metadata) ==
    /\ target_spec = SpecOf(tsig, "target.kwonlydefaults",
                            tsig.returns
                              \o <<Annotation("a", "Annotated", "int", metadata)>>
                              \o tsig.annotations)
    /\ source_spec = IF ssig = NoSource THEN NoneSpec
                     ELSE SpecOf(ssig, "source.kwonlydefaults", <<>>)
    /\ heap = FreshHeap(tsig, ssig)
    /\ decorated = [target_spec |-> target_spec, source_spec |-> source_spec,
                    heap |-> heap]

Init ==
    /\ \E tsig \in Targets, ssig \in Sources \cup {NoSource},
          metadata \in MetadataChoices : Decorate(tsig, ssig, metadata)
    /\ called_before = FALSE
    /\ call = [args |-> <<>>, kwargs |-> EmptyDict]
    /\ args = <<>>
    /\ kwargs = EmptyDict
    /\ source_map = None
    /\ target_map = None
    /\ entry_map = EmptyDict
    /\ pc = "idle"
    /\ pos = 1
    /\ exc = NoException
    /\ log = <<>>
    /\ received = EmptyDict
    /\ invoked = 0

\* wrapper( *a, **kw ): a new call, once the previous one is over
Call ==
    /\ pc = "idle"
    /\ \E a \in CallArgs, kw \in CallKwargs :
          Install(Enter(target_spec, source_spec, heap, a, kw))
    /\ UNCHANGED called_before

RunItem ==
    /\ pc = "items"
    /\ pos <= Len(MetadataItems(target_spec))
    /\ Install(ItemStep(target_spec, State))
    /\ UNCHANGED called_before

RebuildArgs ==
    /\ pc = "items"
    /\ pos > Len(MetadataItems(target_spec))
    /\ Install(Rebuild(target_spec, source_spec, State))
    /\ UNCHANGED called_before

CallFun ==
    /\ pc = "call"
    /\ Install(Invoke(target_spec, State))
    /\ UNCHANGED called_before

\* the call is over (fun's result is returned, or the exception has left
\* the wrapper): the frame and the dictionaries it created are gone
Leave ==
    /\ pc \in {"returned", "raised"}
    /\ Install(Frame(NewObjects(heap), <<>>, EmptyDict))
    /\ called_before' = TRUE

Next == Call \/ RunItem \/ RebuildArgs \/ CallFun \/ Leave

Spec == Init /\ [][Next]_vars

(***************************************************************************)
(* Properties.                                                             *)
(***************************************************************************)
\* the spec the call is bound against
BindSpec == IF source_spec = NoneSpec THEN target_spec ELSE source_spec

\* get_arg_map has run for the current call
Bound == pc # "idle"

\* what get_arg_map made of the current call
ArgMapResult == get_arg_map(BindSpec, call.args, call.kwargs, decorated.heap)

\* what the language makes of the same call for a function of that signature
LanguageBinding ==
    PyBind(BindSpec, call.args, call.kwargs, decorated.heap[BindSpec.kwonlydefaults])

NamedParameters(spec) == Range(spec.args) \cup Range(spec.kwonlyargs)

DeclaredParameters(spec) ==
    NamedParameters(spec) \cup ({spec.varargs, spec.varkw} \ {None})

IsValidecorError(e, type) == e.kind = "ValidecorError" /\ e.type = type

\* the number of metadata items of the Annotated parameters
RECURSIVE CountItems(_, _)
CountItems(annotations, i) ==
    IF i > Len(annotations) THEN 0
    ELSE (IF annotations[i].origin = "Annotated" THEN Len(annotations[i].metadata)
          ELSE 0) + CountItems(annotations, i + 1)

\* C1: the underlying function is invoked at most once per call, and only
\* after binding and every metadata item of every Annotated parameter have
\* completed without raising; once binding or an item raises, no later item
\* runs and the function is never invoked for that call.
C1_InvokedOnceAfterAllItems ==
    /\ invoked <= 1
    /\ invoked = 1 =>
          /\ source_map # None
          /\ exc = NoException
          /\ Len(log) = CountItems(target_spec.annotations, 1)
          /\ \A i \in 1..Len(log) : log[i].exc = NoException
    /\ \A i \in 1..Len(log) :
          log[i].exc # NoException =>
              /\ i = Len(log)
              /\ pc = "raised"
              /\ exc = log[i].exc
              /\ invoked = 0
    /\ (pc = "raised" /\ source_map = None) => (log = <<>> /\ invoked = 0)

C1_Witness ==
    /\ pc = "returned"
    /\ invoked = 1
    /\ Len(log) >= 2

\* C2: for every wrapper call that passes validation, with or without a
\* source_spec, the value the function receives for each declared parameter
\* is the value the target map holds for it after all metadata items ran.
C2_FunReceivesTargetMap ==
    pc = "returned" =>
        \A n \in DeclaredParameters(target_spec) :
            /\ n \in DOMAIN heap[target_map]
            /\ received[n] = heap[target_map][n]

\* C3: for every call the language's binding rules accept for the signature,
\* get_arg_map returns without error and binds each named parameter to the
\* value the call supplies for it, positionally or by keyword, and otherwise
\* to its declared default.
C3_ArgMapAgreesWithBinding ==
    (Bound /\ LanguageBinding.ok) =>
        /\ ArgMapResult.ok
        /\ \A n \in NamedParameters(BindSpec) :
              /\ n \in DOMAIN ArgMapResult.map
              /\ ArgMapResult.map[n] = LanguageBinding.map[n]

\* the declared parameters without a default for which the call has no value,
\* as positions of the declaration order (positional before keyword-only)
DeclarationOrder(spec) == spec.args \o spec.kwonlyargs

Unsupplied(spec) ==
    {i \in 1..Len(DeclarationOrder(spec)) :
        LET n == DeclarationOrder(spec)[i]
        IN  /\ ~(i <= Len(spec.args) /\ i <= Len(call.args))
            /\ n \notin DOMAIN call.kwargs
            /\ n \notin DOMAIN map_defaults(spec)
            /\ ~(i > Len(spec.args) /\ n \in DOMAIN decorated.heap[spec.kwonlydefaults])}

\* C4: get_arg_map raises ArgMiss exactly when the call supplies no value for
\* some declared parameter without a default, naming the first such parameter
\* in declaration order, and before any validator runs.
C4_ArgMissExactlyWhenUnsupplied ==
    Bound =>
        /\ IsValidecorError(ArgMapResult.exc, "ArgMiss") <=> Unsupplied(BindSpec) # {}
        /\ IsValidecorError(ArgMapResult.exc, "ArgMiss") =>
              /\ Unsupplied(BindSpec) # {}
              /\ ArgMapResult.exc.arg_name =
                    DeclarationOrder(BindSpec)[CHOOSE i \in Unsupplied(BindSpec) :
                                                  \A j \in Unsupplied(BindSpec) : i <= j]
              /\ log = <<>>

\* C5: without *args a call with more positional arguments than positional
\* parameters raises ArgCount; without **kwargs a call carrying a keyword that
\* is no keyword-only parameter raises ArgCount; the function is not invoked.
C5_SurplusRejected ==
    LET spec == BindSpec
        surplus ==
            \/ spec.varargs = None /\ Len(call.args) > Len(spec.args)
            \/ spec.varkw = None /\ \E n \in DOMAIN call.kwargs :
                                        n \notin Range(spec.kwonlyargs)
    IN  (Bound /\ surplus) =>
            /\ IsValidecorError(ArgMapResult.exc, "ArgCount")
            /\ invoked = 0

\* C6: every failure of the wrapper before the underlying function is invoked
\* is a ValidecorError of one of the five ErrorType members, and a metadata
\* item that is not a Validator instance yields BadMetadata.
C6_OnlyValidecorErrors ==
    /\ (pc = "raised" /\ invoked = 0) =>
          (exc.kind = "ValidecorError" /\ exc.type \in ErrorType)
    /\ \A i \in 1..Len(log) :
          ~IsValidator(log[i].metadata) =>
              IsValidecorError(log[i].exc, "BadMetadata")

IsMap(entry) == entry.metadata.cls = "Map"

IsCheck(entry) == IsValidator(entry.metadata) /\ ~IsMap(entry)

\* the value a Map resolves from the source map it was given
Resolved(entry) == Walk(entry.metadata.nodes, 1, D(entry.source))

\* C7 as claimed: for each annotated parameter the Map items run before the
\* validators, whatever the order of the items in the annotation's metadata.
C7_MapsBeforeValidators ==
    \A i, j \in 1..Len(log) :
        (i < j /\ log[i].arg_name = log[j].arg_name) =>
            ~(IsCheck(log[i]) /\ IsMap(log[j]))

\* C7 as amended: the metadata items of a parameter run in the order in which
\* they appear in the annotation's metadata, each on the target map the item
\* before it left; a validator that directly follows a Map that resolved
\* checks the mapped value.
C7_ItemsRunInMetadataOrder ==
    \A i \in 1..Len(log) :
        /\ log[i].idx = IF i > 1 /\ log[i - 1].arg_name = log[i].arg_name
                          THEN log[i - 1].idx + 1
                        ELSE 1
        /\ \E ann \in Range(target_spec.annotations) :
              /\ ann.origin = "Annotated"
              /\ ann.arg_name = log[i].arg_name
              /\ log[i].idx <= Len(ann.metadata)
              /\ ann.metadata[log[i].idx] = log[i].metadata
        /\ log[i].before = IF i > 1 THEN log[i - 1].after ELSE entry_map
        /\ (/\ i > 1
            /\ log[i - 1].arg_name = log[i].arg_name
            /\ IsMap(log[i - 1])
            /\ Resolved(log[i - 1]).ok) =>
                /\ log[i].arg_name \in DOMAIN log[i].before
                /\ log[i].before[log[i].arg_name] = Resolved(log[i - 1]).val

C7_Witness ==
    /\ Len(log) >= 2
    /\ log[1].arg_name = log[2].arg_name
    /\ IsMap(log[1])
    /\ Resolved(log[1]).ok
    /\ log[1].after # log[1].before
    /\ IsCheck(log[2])

\* C8: no state persists across calls: after any sequence of wrapper calls
\* the recorded signature and its defaults are what they were at decoration,
\* and a call's outcome is the outcome of that call made first on a freshly
\* decorated function.
C8_NoStateAcrossCalls ==
    /\ target_spec = decorated.target_spec
    /\ source_spec = decorated.source_spec
    /\ \A o \in {"target.kwonlydefaults", "source.kwonlydefaults", "fun.__kwdefaults__"} :
          heap[o] = decorated.heap[o]
    /\ Finished(State) =>
          Outcome(State) =
              Outcome(Run(decorated.target_spec, decorated.source_spec,
                          Enter(decorated.target_spec, decorated.source_spec,
                                decorated.heap, call.args, call.kwargs)))

C8_Witness ==
    /\ called_before
    /\ pc = "returned"
    /\ source_spec # NoneSpec
    /\ decorated.heap["target.kwonlydefaults"] # EmptyDict
    /\ \E i \in 1..Len(log) :
          log[i].metadata.cls = "IsTypable" /\ log[i].after # log[i].before

\* the exceptions and values of get_arg_map's surplus collection
Collected(spec) ==
    [varargs |-> Tu(SubSeq(call.args, Min(Len(call.args), Len(spec.args)) + 1,
                           Len(call.args))),
     varkw |-> D([n \in {m \in DOMAIN call.kwargs : m \notin Range(spec.kwonlyargs)} |->
                    call.kwargs[n]])]

\* C9: with *args declared, get_arg_map binds it to the tuple of the surplus
\* positional arguments; with **kwargs declared, to the dictionary of exactly
\* the keyword arguments that are no keyword-only parameters; and a validator
\* on the *args or **kwargs parameter of a function decorated without
\* source_spec observes those collected values.
C9_SurplusCollected ==
    /\ (Bound /\ ArgMapResult.exc.kind # "ValidecorError") =>
          /\ ArgMapResult.ok
          /\ BindSpec.varargs # None =>
                ArgMapResult.map[BindSpec.varargs] = Collected(BindSpec).varargs
          /\ BindSpec.varkw # None =>
                ArgMapResult.map[BindSpec.varkw] = Collected(BindSpec).varkw
    /\ source_spec = NoneSpec =>
          \A i \in 1..Len(log) :
              /\ (IsCheck(log[i]) /\ log[i].arg_name = target_spec.varargs) =>
                    log[i].before[log[i].arg_name] = Collected(target_spec).varargs
              /\ (IsCheck(log[i]) /\ log[i].arg_name = target_spec.varkw) =>
                    log[i].before[log[i].arg_name] = Collected(target_spec).varkw

\* C10: Map is all-or-nothing on the target map: when the walk succeeds the
\* parameter's entry becomes the resolved value; when a step fails the target
\* map is left as it was, and ArgMap is raised exactly when the parameter has
\* no entry in it.
C10_MapAllOrNothing ==
    \A i \in 1..Len(log) :
        IsMap(log[i]) =>
            LET e == log[i]
                held == e.arg_name \in DOMAIN e.before
            IN  /\ Resolved(e).ok =>
                      /\ e.exc = NoException
                      /\ DOMAIN e.after = (DOMAIN e.before) \cup {e.arg_name}
                      /\ e.after[e.arg_name] = Resolved(e).val
                      /\ \A n \in (DOMAIN e.before) \ {e.arg_name} :
                            e.after[n] = e.before[n]
                /\ ~Resolved(e).ok =>
                      /\ e.after = e.before
                      /\ ~held <=> IsValidecorError(e.exc, "ArgMap")
                      /\ held <=> e.exc = NoException
                /\ (i = Len(log) /\ pc = "items") => heap[target_map] = e.after

C10_Witness ==
    \E i \in 1..Len(log) :
        /\ IsMap(log[i])
        /\ ~Resolved(log[i]).ok
        /\ log[i].arg_name \in DOMAIN log[i].before
        /\ log[i].exc = NoException
        /\ pc = "returned"

====
